---- MODULE Spec2Model ----
(***************************************************************************)
(* Resume builder: the persistence adapter (utils/storage.ts), the         *)
(* synchronization held by App (App.tsx), the form that feeds it           *)
(* (ResumeForm) and the preview renderer (ResumePreview.tsx).              *)
(*                                                                         *)
(* JavaScript values are modelled as tagged records, one tag per JS type,  *)
(* so that a value of any shape can be stored, parsed, validated and       *)
(* compared: JSON.parse returns whatever the text holds and the zod schema *)
(* validates whatever it is given.                                         *)
(***************************************************************************)
EXTENDS Integers, Sequences, FiniteSets, TLC

VARIABLES
    storage,      \* localStorage item under STORAGE_KEY: NoItem or Item(text)
    data,         \* App: const [data, setData] = useState(...)
    formValues,   \* ResumeForm: the values held by useForm
    op,           \* the handler that ran last and what it was given
    events,       \* number of UI change events delivered so far
    setDataCalls, \* number of calls of setData so far
    saveCalls,    \* number of calls of save so far
    blob,         \* how the stored item came about: absent, saved, truncated, garbled
    savedArg,     \* adapter check: the argument of the last save
    loadArg,      \* adapter check: the fallback given to the last load
    loadResult,   \* adapter check: what the last load returned
    rendered,     \* preview check: the output of the last render
    pdfButton,    \* which PdfDownloadButton is mounted: "part_002" or "part_003"
    dom,          \* document: body, body class, title, title meta, style tags
    timers,       \* pending setTimeout callbacks and pending library work
    listeners,    \* afterprint/beforeprint listeners on window, oldest first
    isProcessing, \* part_003: const [isProcessing, setIsProcessing] = useState(false)
    didErrorRef,  \* part_002: const didErrorRef = useRef(false)
    printStylesRef, \* part_003: the attempt whose style tag the ref holds, 0 = null
    trace,        \* per click: the stages attempted and what became of them
    clicks        \* number of clicks that reached onClick

exportVars == <<pdfButton, dom, timers, listeners, isProcessing, didErrorRef,
                printStylesRef, trace, clicks>>

vars == <<storage, data, formValues, op, events, setDataCalls, saveCalls,
          blob, savedArg, loadArg, loadResult, rendered, exportVars>>

\* the page as it is while nothing is being exported
PageAtRest ==
    [body |-> [content |-> "app", iframes |-> {}], bodyClass |-> "app",
     title |-> "app", titleMeta |-> "none", styleTags |-> {}]

ExportIdle ==
    /\ pdfButton = "part_003"
    /\ dom = PageAtRest
    /\ timers = {}
    /\ listeners = <<>>
    /\ isProcessing = FALSE
    /\ didErrorRef = FALSE
    /\ printStylesRef = 0
    /\ trace = <<>>
    /\ clicks = 0

-----------------------------------------------------------------------------
(* Bounds of the model *)

MaxEvents == 2
MaxContacts == 1
MaxSections == 2
MaxPreviewSections == 3

-----------------------------------------------------------------------------
(* JavaScript values *)

Str(s) == [str |-> s]
Num(n) == [num |-> n]
Arr(q) == [arr |-> q]
Obj(r) == [obj |-> r]
NaN == [nan |-> TRUE]
Null == [null |-> TRUE]
Undefined == [undef |-> TRUE]
EmptyObj == Obj([k \in {} |-> Null])

IsStr(v) == DOMAIN v = {"str"}
IsNum(v) == DOMAIN v = {"num"}
IsArr(v) == DOMAIN v = {"arr"}
IsObj(v) == DOMAIN v = {"obj"}

Has(o, k) == IsObj(o) /\ k \in DOMAIN o.obj
Get(o, k) == IF Has(o, k) THEN o.obj[k] ELSE Undefined
Put(o, k, v) ==
    Obj([x \in (DOMAIN o.obj) \cup {k} |-> IF x = k THEN v ELSE o.obj[x]])
Elems(a) == IF IsArr(a) THEN a.arr ELSE <<>>
PutAt(a, i, v) == Arr([a.arr EXCEPT ![i] = v])
RemoveAt(q, i) == SubSeq(q, 1, i - 1) \o SubSeq(q, i + 1, Len(q))

\* JavaScript truthiness of a property value (it.subheading && ...)
Truthy(v) ==
    CASE IsStr(v) -> v.str # ""
      [] IsNum(v) -> v.num # 0
      [] IsArr(v) -> TRUE
      [] IsObj(v) -> TRUE
      [] OTHER -> FALSE

-----------------------------------------------------------------------------
(* JSON text, as a sequence of tokens.  The indentation that               *)
(* JSON.stringify(data, null, 2) adds is white space between tokens, which *)
(* JSON.parse skips, so it is not part of the token sequence.              *)

P(c) == [p |-> c]
TStr(s) == [s |-> s]
TNum(n) == [n |-> n]
TNull == [lit |-> "null"]
TBad == [bad |-> TRUE]

\* Property order of the objects the program builds (insertion order).
KeyOrder ==
    <<"meta", "fullName", "title", "contact", "label", "value", "type",
      "layout", "leftWidth", "rightWidth", "sections", "key", "placement",
      "order", "content", "groups", "name", "items", "heading", "subheading",
      "start", "end", "bullets", "link", "positions", "invisibleKeywords">>

RECURSIVE Stringify(_), StringifyElems(_, _), StringifyMembers(_, _, _)

\* the own properties of an object that JSON.stringify writes, in order
OwnKeys(o) ==
    SelectSeq(KeyOrder, LAMBDA k : k \in DOMAIN o.obj /\ o.obj[k] # Undefined)

\* JSON.stringify: NaN and undefined array elements become null, properties
\* whose value is undefined are left out.
Stringify(v) ==
    CASE IsStr(v) -> <<TStr(v.str)>>
      [] IsNum(v) -> <<TNum(v.num)>>
      [] IsArr(v) -> <<P("[")>> \o StringifyElems(v.arr, 1) \o <<P("]")>>
      [] IsObj(v) ->
            <<P("{")>> \o StringifyMembers(v.obj, OwnKeys(v), 1) \o <<P("}")>>
      [] OTHER -> <<TNull>>

StringifyElems(q, i) ==
    IF i > Len(q) THEN <<>>
    ELSE (IF i > 1 THEN <<P(",")>> ELSE <<>>)
         \o Stringify(q[i]) \o StringifyElems(q, i + 1)

StringifyMembers(r, keys, i) ==
    IF i > Len(keys) THEN <<>>
    ELSE (IF i > 1 THEN <<P(",")>> ELSE <<>>)
         \o <<TStr(keys[i]), P(":")>>
         \o Stringify(r[keys[i]])
         \o StringifyMembers(r, keys, i + 1)

ParseFail == [ok |-> FALSE, val |-> Undefined, next |-> 0]
ParseOk(v, n) == [ok |-> TRUE, val |-> v, next |-> n]
TokAt(t, i) == IF i >= 1 /\ i <= Len(t) THEN t[i] ELSE [eof |-> TRUE]

RECURSIVE ParseValue(_, _), ParseElems(_, _, _), ParseMembers(_, _, _)

ParseValue(t, i) ==
    LET k == TokAt(t, i) IN
    CASE DOMAIN k = {"s"} -> ParseOk(Str(k.s), i + 1)
      [] DOMAIN k = {"n"} -> ParseOk(Num(k.n), i + 1)
      [] k = TNull -> ParseOk(Null, i + 1)
      [] k = P("[") ->
            IF TokAt(t, i + 1) = P("]") THEN ParseOk(Arr(<<>>), i + 2)
            ELSE ParseElems(t, i + 1, <<>>)
      [] k = P("{") ->
            IF TokAt(t, i + 1) = P("}") THEN ParseOk(EmptyObj, i + 2)
            ELSE ParseMembers(t, i + 1, EmptyObj)
      [] OTHER -> ParseFail

ParseElems(t, i, acc) ==
    LET r == ParseValue(t, i) IN
    IF ~r.ok THEN ParseFail
    ELSE IF TokAt(t, r.next) = P(",")
         THEN ParseElems(t, r.next + 1, Append(acc, r.val))
         ELSE IF TokAt(t, r.next) = P("]")
              THEN ParseOk(Arr(Append(acc, r.val)), r.next + 1)
              ELSE ParseFail

ParseMembers(t, i, acc) ==
    LET k == TokAt(t, i) IN
    IF DOMAIN k # {"s"} \/ TokAt(t, i + 1) # P(":") THEN ParseFail
    ELSE LET r == ParseValue(t, i + 2) IN
         IF ~r.ok THEN ParseFail
         ELSE IF TokAt(t, r.next) = P(",")
              THEN ParseMembers(t, r.next + 1, Put(acc, k.s, r.val))
              ELSE IF TokAt(t, r.next) = P("}")
                   THEN ParseOk(Put(acc, k.s, r.val), r.next + 1)
                   ELSE ParseFail

\* JSON.parse: ok = FALSE stands for the SyntaxError it throws.
JSONParse(t) ==
    LET r == ParseValue(t, 1) IN
    IF r.ok /\ r.next = Len(t) + 1 THEN [ok |-> TRUE, val |-> r.val]
    ELSE [ok |-> FALSE, val |-> Undefined]

-----------------------------------------------------------------------------
(* utils/storage.ts *)

NoItem == [none |-> TRUE]
Item(t) == [text |-> t]

\* localStorage.getItem(STORAGE_KEY): null when the key is absent
GetItem(st) == st

\* load that gives the fallback unless the parsed value has the shape of a
\* document (meta, numeric layout widths, a sections array)
loadValidated(st, fallback) ==
    LET raw == GetItem(st) IN
    IF raw = NoItem \/ raw.text = <<>> THEN fallback
    ELSE LET parsed == JSONParse(raw.text) IN
         IF /\ parsed.ok
            /\ IsObj(Get(parsed.val, "meta"))
            /\ IsNum(Get(Get(parsed.val, "layout"), "leftWidth"))
            /\ IsNum(Get(Get(parsed.val, "layout"), "rightWidth"))
            /\ IsArr(Get(parsed.val, "sections"))
         THEN parsed.val ELSE fallback

\* load with the two branches of the conditional exchanged
loadInverted(st, fallback) ==
    LET raw == GetItem(st) IN
    IF raw = NoItem \/ raw.text = <<>> THEN Null ELSE fallback

\* load without the try/catch: the SyntaxError reaches the caller
loadNoCatch(st, fallback) ==
    LET raw == GetItem(st) IN
    IF raw = NoItem \/ raw.text = <<>> THEN fallback
    ELSE IF JSONParse(raw.text).ok THEN JSONParse(raw.text).val
         ELSE [thrown |-> "SyntaxError"]

\* load(fallback): raw ? JSON.parse(raw) : fallback, any throw gives fallback
load(st, fallback) ==
    LET raw == GetItem(st) IN
    IF raw = NoItem \/ raw.text = <<>> THEN fallback
    ELSE LET parsed == JSONParse(raw.text) IN
         IF parsed.ok THEN parsed.val ELSE fallback

\* save(data): the item written under STORAGE_KEY
save(d) == Item(Stringify(d))

-----------------------------------------------------------------------------
(* ResumeForm: the zod schema handed to zodResolver.  Each operator is the  *)
(* success of safeParse on the value; z.object ignores unknown keys,       *)
(* z.number rejects NaN, an optional field may be undefined.               *)

StringMin1(v) == IsStr(v) /\ v.str # ""
OptionalString(v) == v = Undefined \/ IsStr(v)
\* the elements of an array, for z.array(element schema)
ElemSet(v) == {v.arr[i] : i \in 1..Len(v.arr)}
ZString(v) == IsStr(v)
ArrayOfStrings(v) == IsArr(v) /\ \A e \in ElemSet(v) : ZString(e)
OptionalStrings(v) == v = Undefined \/ ArrayOfStrings(v)

contactSchema(v) ==
    /\ IsObj(v)
    /\ StringMin1(Get(v, "label"))
    /\ StringMin1(Get(v, "value"))
    /\ Get(v, "type") \in {Str("link"), Str("phone"), Str("email")}

positionSchema(v) ==
    /\ IsObj(v)
    /\ StringMin1(Get(v, "title"))
    /\ OptionalString(Get(v, "start"))
    /\ OptionalString(Get(v, "end"))
    /\ OptionalStrings(Get(v, "bullets"))

timelineItemSchema(v) ==
    /\ IsObj(v)
    /\ StringMin1(Get(v, "heading"))
    /\ OptionalString(Get(v, "subheading"))
    /\ OptionalString(Get(v, "start"))
    /\ OptionalString(Get(v, "end"))
    /\ OptionalStrings(Get(v, "bullets"))
    /\ OptionalString(Get(v, "meta"))
    /\ (Get(v, "positions") = Undefined
        \/ (/\ IsArr(Get(v, "positions"))
            /\ \A e \in ElemSet(Get(v, "positions")) : positionSchema(e)))

sectionBaseSchema(v) ==
    /\ IsObj(v)
    /\ StringMin1(Get(v, "key"))
    /\ StringMin1(Get(v, "title"))
    /\ Get(v, "placement") \in {Str("left"), Str("right")}
    /\ IsNum(Get(v, "order")) /\ Get(v, "order").num >= 0

richSectionSchema(v) ==
    /\ sectionBaseSchema(v)
    /\ Get(v, "type") = Str("rich")
    /\ IsStr(Get(v, "content"))

groupSchema(v) ==
    /\ IsObj(v)
    /\ StringMin1(Get(v, "name"))
    /\ ArrayOfStrings(Get(v, "items"))

groupedSectionSchema(v) ==
    /\ sectionBaseSchema(v)
    /\ Get(v, "type") = Str("grouped")
    /\ IsArr(Get(v, "groups"))
    /\ \A e \in ElemSet(Get(v, "groups")) : groupSchema(e)

timelineSectionSchema(v) ==
    /\ sectionBaseSchema(v)
    /\ Get(v, "type") = Str("timeline")
    /\ IsArr(Get(v, "items"))
    /\ \A e \in ElemSet(Get(v, "items")) : timelineItemSchema(e)

\* z.discriminatedUnion("type", [...]): the member is chosen by the tag
sectionSchema(v) ==
    CASE Get(v, "type") = Str("rich") -> richSectionSchema(v)
      [] Get(v, "type") = Str("grouped") -> groupedSectionSchema(v)
      [] Get(v, "type") = Str("timeline") -> timelineSectionSchema(v)
      [] OTHER -> FALSE

LeftWidthMin == 20
LeftWidthMax == 50
RightWidthMin == 50
RightWidthMax == 80

schema(v) ==
    /\ IsObj(v)
    /\ IsObj(Get(v, "meta"))
    /\ StringMin1(Get(Get(v, "meta"), "fullName"))
    /\ StringMin1(Get(Get(v, "meta"), "title"))
    /\ IsArr(Get(Get(v, "meta"), "contact"))
    /\ \A e \in ElemSet(Get(Get(v, "meta"), "contact")) : contactSchema(e)
    /\ IsObj(Get(v, "layout"))
    /\ IsNum(Get(Get(v, "layout"), "leftWidth"))
    /\ Get(Get(v, "layout"), "leftWidth").num >= LeftWidthMin
    /\ Get(Get(v, "layout"), "leftWidth").num <= LeftWidthMax
    /\ IsNum(Get(Get(v, "layout"), "rightWidth"))
    /\ Get(Get(v, "layout"), "rightWidth").num >= RightWidthMin
    /\ Get(Get(v, "layout"), "rightWidth").num <= RightWidthMax
    /\ IsArr(Get(v, "sections"))
    /\ \A e \in ElemSet(Get(v, "sections")) : sectionSchema(e)

-----------------------------------------------------------------------------
(* data/initialData.ts: constructors of the ResumeData types and the       *)
(* default document (its first contact and its first two sections).        *)

Contact(label, value, type) ==
    Obj([label |-> Str(label), value |-> Str(value), type |-> Str(type)])

RichSection(key, title, placement, order, content) ==
    Obj([key |-> Str(key), title |-> Str(title), placement |-> Str(placement),
         order |-> order, type |-> Str("rich"), content |-> Str(content)])

TimelineSection(key, title, placement, order, items) ==
    Obj([key |-> Str(key), title |-> Str(title), placement |-> Str(placement),
         order |-> order, type |-> Str("timeline"), items |-> Arr(items)])

GroupedSection(key, title, placement, order, groups) ==
    Obj([key |-> Str(key), title |-> Str(title), placement |-> Str(placement),
         order |-> order, type |-> Str("grouped"), groups |-> Arr(groups)])

ResumeData(fullName, title, contact, leftWidth, rightWidth, sections) ==
    Obj([meta |-> Obj([fullName |-> Str(fullName), title |-> Str(title),
                       contact |-> Arr(contact)]),
         layout |-> Obj([leftWidth |-> leftWidth, rightWidth |-> rightWidth]),
         sections |-> Arr(sections)])

initialData ==
    ResumeData("Gitanshu Talwar", "Backend Software Engineer",
        <<Contact("Phone", "+91 8126081194", "phone")>>,
        Num(30), Num(70),
        <<RichSection("summary", "Summary", "left", Num(1), "Backend"),
          TimelineSection("education", "Education", "left", Num(2),
              <<Obj([heading |-> Str("Manipal University Jaipur "),
                     subheading |-> Str("B.Tech"),
                     start |-> Str("2021"), end |-> Str("2025"),
                     bullets |-> Arr(<<Str("Grade: 8.75")>>)])>>)>>)

-----------------------------------------------------------------------------
(* The persistence adapter on its own: save, load, and what can happen to  *)
(* the stored item between them (truncated, overwritten with text that is  *)
(* not JSON, removed), followed by the start of App.                       *)

StoreItems ==
    {<<Obj([heading |-> Str("H")])>>,
     <<Obj([heading |-> Str("H"), subheading |-> Str(""),
            bullets |-> Arr(<<Str("b")>>),
            positions |-> Arr(<<Obj([title |-> Str("P")])>>)])>>}

StoreSections ==
    {<<>>, <<RichSection("k", "T", "left", Num(0), "")>>}
    \cup {<<TimelineSection("t", "T", "right", Num(2), it)>> : it \in StoreItems}
    \cup {<<RichSection("k", "T", "left", NaN, "c")>>,
          <<GroupedSection("g", "G", "right", Num(1),
                <<Obj([name |-> Str("n"), items |-> Arr(<<Str("i")>>)])>>)>>}

StoreDocs ==
    {ResumeData(n, "T", c, l, Num(70), s) :
        n \in {"", "A"},
        c \in {<<>>, <<Contact("L", "v", "link")>>},
        l \in {Num(30), Num(10), NaN},
        s \in StoreSections}

Fallbacks == {initialData, ResumeData("F", "T", <<>>, Num(30), Num(70), <<>>)}

\* "{invalid"
InvalidText == <<P("{"), TBad>>

StoreInit ==
    /\ storage = NoItem
    /\ blob = "absent"
    /\ data = Undefined
    /\ formValues = Undefined
    /\ op = [kind |-> "none"]
    /\ events = 0
    /\ setDataCalls = 0
    /\ saveCalls = 0
    /\ savedArg = Undefined
    /\ loadArg = Undefined
    /\ loadResult = Undefined
    /\ rendered = Undefined
    /\ ExportIdle

\* save(d), on a key that is absent or holds text that is not JSON
StoreSave(d) ==
    /\ blob \in {"absent", "garbled"}
    /\ storage' = save(d)
    /\ blob' = "saved"
    /\ savedArg' = d
    /\ op' = [kind |-> "save"]
    /\ loadArg' = Undefined
    /\ loadResult' = Undefined
    /\ data' = Undefined
    /\ UNCHANGED <<formValues, events, setDataCalls, saveCalls, rendered,
                   exportVars>>

\* load(f)
StoreLoad(f) ==
    /\ loadArg' = f
    /\ loadResult' = load(storage, f)
    /\ op' = [kind |-> "load"]
    /\ data' = Undefined
    /\ UNCHANGED <<storage, blob, savedArg, formValues, events, setDataCalls,
                   saveCalls, rendered, exportVars>>

\* the stored text loses its tail (a proper prefix of what save wrote is left)
StoreTruncate ==
    /\ blob = "saved"
    /\ op.kind = "save"
    /\ \E k \in 0..(Len(storage.text) - 1) :
          storage' = Item(SubSeq(storage.text, 1, k))
    /\ blob' = "truncated"
    /\ op' = [kind |-> "truncate"]
    /\ UNCHANGED <<savedArg, data, formValues, events, setDataCalls, saveCalls,
                   loadArg, loadResult, rendered, exportVars>>

\* the key holds text that is not JSON
StoreGarble ==
    /\ blob # "garbled"
    /\ storage' = Item(InvalidText)
    /\ blob' = "garbled"
    /\ op' = [kind |-> "garble"]
    /\ savedArg' = Undefined
    /\ loadArg' = Undefined
    /\ loadResult' = Undefined
    /\ data' = Undefined
    /\ UNCHANGED <<formValues, events, setDataCalls, saveCalls, rendered,
                   exportVars>>

\* localStorage.removeItem / cleared site data
StoreRemove ==
    /\ blob # "absent"
    /\ storage' = NoItem
    /\ blob' = "absent"
    /\ op' = [kind |-> "remove"]
    /\ savedArg' = Undefined
    /\ loadArg' = Undefined
    /\ loadResult' = Undefined
    /\ data' = Undefined
    /\ UNCHANGED <<formValues, events, setDataCalls, saveCalls, rendered,
                   exportVars>>

\* App: useState(() => load(initialData))
AppStart ==
    /\ data' = load(storage, initialData)
    /\ op' = [kind |-> "start"]
    /\ loadArg' = Undefined
    /\ loadResult' = Undefined
    /\ UNCHANGED <<storage, blob, savedArg, formValues, events, setDataCalls,
                   saveCalls, rendered, exportVars>>

StoreNext ==
    \/ \E d \in StoreDocs : StoreSave(d)
    \/ \E f \in Fallbacks : StoreLoad(f)
    \/ StoreTruncate
    \/ StoreGarble
    \/ StoreRemove
    \/ AppStart

SpecStore == StoreInit /\ [][StoreNext]_vars

\* C1: after save(d) of a schema-valid document d, load(f) returns a
\* document equal to d, whatever the fallback f.
C1_RoundTrip ==
    (op.kind = "load" /\ blob = "saved" /\ schema(savedArg))
        => loadResult = savedArg

C1_Witness ==
    /\ op.kind = "load" /\ blob = "saved" /\ schema(savedArg)
    /\ Len(Elems(Get(savedArg, "sections"))) > 0
    /\ loadArg # savedArg

\* C2: load(fallback) returns exactly fallback, and nothing is thrown, when
\* the key is absent or the stored text is malformed (truncated or not
\* JSON); App then starts from the default document.
C2_FallbackOnAbsentOrMalformed ==
    /\ (op.kind = "load" /\ blob \in {"absent", "truncated", "garbled"})
          => loadResult = loadArg
    /\ (op.kind = "start" /\ blob \in {"absent", "truncated", "garbled"})
          => data = initialData

C2_Witness ==
    /\ op.kind = "load" /\ blob = "truncated"
    /\ Len(storage.text) > 1
    /\ loadResult = loadArg

-----------------------------------------------------------------------------
(* App and ResumeForm: the edit loop.                                      *)

K(k) == [k |-> k]
I(i) == [i |-> i]

RECURSIVE SetIn(_, _, _)

\* react-hook-form set(formValues, name, value): the value at a field path
SetIn(v, path, val) ==
    IF path = <<>> THEN val
    ELSE LET h == Head(path) IN
         IF DOMAIN h = {"k"}
         THEN Put(IF IsObj(v) THEN v ELSE EmptyObj, h.k,
                  SetIn(Get(v, h.k), Tail(path), val))
         ELSE PutAt(v, h.i, SetIn(v.arr[h.i], Tail(path), val))

RECURSIVE GetIn(_, _)

GetIn(v, path) ==
    IF path = <<>> THEN v
    ELSE LET h == Head(path) IN
         IF DOMAIN h = {"k"} THEN GetIn(Get(v, h.k), Tail(path))
         ELSE IF IsArr(v) /\ h.i \in 1..Len(v.arr)
              THEN GetIn(v.arr[h.i], Tail(path))
              ELSE Undefined

\* what a number input holds: nothing, or digits
Empty == [empty |-> TRUE]
Digits(n) == [digits |-> n]

\* register(name, { valueAsNumber: true }): an empty input gives NaN
valueAsNumber(raw) == IF raw = Empty THEN NaN ELSE Num(raw.digits)

Contacts(v) == Elems(Get(Get(v, "meta"), "contact"))
Sections(v) == Elems(Get(v, "sections"))

\* App.onChange(val): setData(val); save(val)
onChange(val) ==
    [data |-> val, storage |-> save(val), setData |-> 1, saves |-> 1]


\* a subscription that passes on only values that satisfy the schema
WatchValidOnly(val, cur, st) ==
    IF ~Truthy(val) \/ ~schema(val)
    THEN [data |-> cur, storage |-> st, setData |-> 0, saves |-> 0]
    ELSE LET a == onChange(val) IN
         [data |-> a.data, storage |-> save(val),
          setData |-> a.setData, saves |-> a.saves + 1]

\* a subscription that updates the parent's state but writes nothing
WatchNoSave(val, cur, st) ==
    IF ~Truthy(val)
    THEN [data |-> cur, storage |-> st, setData |-> 0, saves |-> 0]
    ELSE [data |-> val, storage |-> st, setData |-> 1, saves |-> 0]

\* ResumeForm: form.watch((val) => { if (!val) return; onChange(v); save(v) })
\* given the values of the form, the document App holds and the stored item;
\* yields what App holds and what is stored when the callback returns.
WatchCallback(val, cur, st) ==
    IF ~Truthy(val)
    THEN [data |-> cur, storage |-> st, setData |-> 0, saves |-> 0]
    ELSE LET a == onChange(val) IN
         [data |-> a.data, storage |-> save(val),
          setData |-> a.setData, saves |-> a.saves + 1]

NoText == <<>>

\* a subscription behind a debounce: every other change only reaches the form
DeliverDebounced(kind, text, val) ==
    \E v \in {val} : \E w \in {WatchCallback(v, data, storage)} :
        /\ events < MaxEvents
        /\ formValues' = v
        /\ events' = events + 1
        /\ op' = [kind |-> kind, valid |-> schema(v), text |-> text]
        /\ IF events % 2 = 1
           THEN UNCHANGED <<data, storage, blob, setDataCalls, saveCalls>>
           ELSE /\ data' = w.data
                /\ storage' = w.storage
                /\ blob' = IF w.saves > 0 THEN "saved" ELSE blob
                /\ setDataCalls' = setDataCalls + w.setData
                /\ saveCalls' = saveCalls + w.saves
        /\ UNCHANGED <<savedArg, loadArg, loadResult, rendered, exportVars>>

\* The form has new values and tells its subscribers: the subscription of
\* ResumeForm runs to completion, and App re-renders with the new state.
Deliver(kind, text, val) ==
    \E v \in {val} : \E w \in {WatchCallback(v, data, storage)} :
        /\ events < MaxEvents
        /\ formValues' = v
        /\ data' = w.data
        /\ storage' = w.storage
        /\ blob' = IF w.saves > 0 THEN "saved" ELSE blob
        /\ setDataCalls' = setDataCalls + w.setData
        /\ saveCalls' = saveCalls + w.saves
        /\ events' = events + 1
        /\ op' = [kind |-> kind, valid |-> schema(v), text |-> text]
        /\ UNCHANGED <<savedArg, loadArg, loadResult, rendered, exportVars>>

TextInputs == {"", "A"}
WidthInputs == {Empty, Digits(40), Digits(60)}
OrderInputs == {Digits(0 - 1), Digits(1)}

TextFields(v) ==
    {<<K("meta"), K("fullName")>>, <<K("meta"), K("title")>>}
    \cup {<<K("meta"), K("contact"), I(i), K("label")>> :
            i \in 1..Len(Contacts(v))}
    \cup {<<K("sections"), I(i), K("key")>> : i \in 1..Len(Sections(v))}

WidthFields == {<<K("layout"), K("leftWidth")>>, <<K("layout"), K("rightWidth")>>}

OrderFields(v) ==
    {<<K("sections"), I(i), K("order")>> : i \in 1..Len(Sections(v))}

SelectFields(v) ==
    {[path |-> <<K("meta"), K("contact"), I(i), K("type")>>,
      options |-> {"link", "phone", "email"}] : i \in 1..Len(Contacts(v))}
    \cup {[path |-> <<K("sections"), I(i), K("placement")>>,
           options |-> {"left", "right"}] : i \in 1..Len(Sections(v))}
    \cup {[path |-> <<K("sections"), I(i), K("type")>>,
           options |-> {"rich", "grouped", "timeline"}] :
            i \in 1..Len(Sections(v))}

\* a text input bound with form.register(name) changes
TextChange ==
    \E path \in TextFields(formValues), s \in TextInputs :
        /\ GetIn(formValues, path) # Str(s)
        /\ Deliver("edit", NoText, SetIn(formValues, path, Str(s)))

\* a number input bound with register(name, { valueAsNumber: true }) changes
NumberChange ==
    \/ \E path \in WidthFields, raw \in WidthInputs :
        /\ GetIn(formValues, path) # valueAsNumber(raw)
        /\ Deliver("edit", NoText, SetIn(formValues, path, valueAsNumber(raw)))
    \/ \E path \in OrderFields(formValues), raw \in OrderInputs :
        /\ GetIn(formValues, path) # valueAsNumber(raw)
        /\ Deliver("edit", NoText, SetIn(formValues, path, valueAsNumber(raw)))

\* a Select under a Controller changes: field.onChange(option)
SelectChange ==
    \E f \in SelectFields(formValues) : \E o \in f.options :
        /\ GetIn(formValues, f.path) # Str(o)
        /\ Deliver("edit", NoText, SetIn(formValues, f.path, Str(o)))

\* contactArray.append({ label: "", value: "", type: "link" })
ContactAppend ==
    /\ Len(Contacts(formValues)) < MaxContacts
    /\ Deliver("append", NoText,
         SetIn(formValues, <<K("meta"), K("contact")>>,
               Arr(Append(Contacts(formValues), Contact("", "", "link")))))

\* contactArray.remove(idx)
ContactRemove ==
    \E i \in 1..Len(Contacts(formValues)) :
        Deliver("remove", NoText,
          SetIn(formValues, <<K("meta"), K("contact")>>,
                Arr(RemoveAt(Contacts(formValues), i))))

\* sectionsArray.append({ key: "new", title: "New Section", ... })
SectionAppend ==
    /\ Len(Sections(formValues)) < MaxSections
    /\ Deliver("append", NoText,
         SetIn(formValues, <<K("sections")>>,
               Arr(Append(Sections(formValues),
                   RichSection("new", "New Section", "right", Num(99), "")))))

\* sectionsArray.remove(idx)
SectionRemove ==
    \E i \in 1..Len(Sections(formValues)) :
        Deliver("remove", NoText,
          SetIn(formValues, <<K("sections")>>,
                Arr(RemoveAt(Sections(formValues), i))))


ImportDocs ==
    {ResumeData("A", "T", <<>>, Num(40), Num(60),
         <<RichSection("k", "K", "right", Num(1), "c")>>),
     ResumeData("B", "T", <<>>, Num(10), Num(60), <<>>)}

\* what can be in the Raw JSON box after a keystroke: text that is not JSON,
\* the shown text without its last character, or a full document
RawTexts(v) ==
    {InvalidText}
    \cup {SubSeq(t, 1, Len(t) - 1) : t \in {Stringify(v)}}
    \cup {Stringify(d) : d \in ImportDocs}

\* the handler with a catch block that clears the form
RawJsonResetOnError(text, cur) ==
    LET r == JSONParse(text) IN
    IF r.ok THEN [reset |-> TRUE, values |-> r.val]
    ELSE [reset |-> TRUE, values |-> initialData]

\* Raw JSON Textarea onChange:
\*   try { const parsed = JSON.parse(e.target.value); form.reset(parsed) }
\*   catch { /* ignore invalid JSON while typing */ }
RawJsonOnChange(text, cur) ==
    LET r == JSONParse(text) IN
    IF r.ok THEN [reset |-> TRUE, values |-> r.val]
    ELSE [reset |-> FALSE, values |-> cur]

\* form.reset(parsed) replaces the values and tells the subscription once
RawJsonChange ==
    /\ events < MaxEvents
    /\ \E text \in RawTexts(formValues) :
        \E r \in {RawJsonOnChange(text, formValues)} :
            IF r.reset
            THEN Deliver("rawJson", text, r.values)
            ELSE /\ events' = events + 1
                 /\ op' = [kind |-> "rawJson", valid |-> FALSE, text |-> text]
                 /\ UNCHANGED <<storage, blob, data, formValues, setDataCalls,
                                saveCalls, savedArg, loadArg, loadResult,
                                rendered, exportVars>>

StoredDoc ==
    ResumeData("S", "T", <<>>, Num(30), Num(70),
        <<RichSection("s", "S", "left", Num(2), "c")>>)

\* the item found under the key when the page is opened
InitialStores ==
    {[s |-> NoItem, b |-> "absent"],
     [s |-> Item(InvalidText), b |-> "garbled"],
     [s |-> save(StoredDoc), b |-> "saved"]}

\* useState(() => load(initialData)); useForm({ defaultValues: value })
Init ==
    /\ \E i \in InitialStores : storage = i.s /\ blob = i.b
    /\ data = load(storage, initialData)
    /\ formValues = data
    /\ op = [kind |-> "none", valid |-> schema(data), text |-> NoText]
    /\ events = 0
    /\ setDataCalls = 0
    /\ saveCalls = 0
    /\ savedArg = Undefined
    /\ loadArg = Undefined
    /\ loadResult = Undefined
    /\ rendered = Undefined
    /\ ExportIdle

Next ==
    \/ TextChange
    \/ NumberChange
    \/ SelectChange
    \/ ContactAppend
    \/ ContactRemove
    \/ SectionAppend
    \/ SectionRemove
    \/ RawJsonChange

Spec == Init /\ [][Next]_vars

-----------------------------------------------------------------------------
(* Properties of the edit loop *)

FormKinds == {"edit", "append", "remove", "rawJson"}
Handled == events' = events + 1

\* C3: a field edit that fails schema validation is not committed (App's
\* document and the stored item stay as they were), so form edits keep a
\* schema-conformant document schema-conformant.
C3_InvalidEditNotCommitted ==
    [][(Handled /\ op'.kind = "edit")
          => /\ (~op'.valid => (data' = data /\ storage' = storage))
             /\ (schema(data) => schema(data'))]_vars

\* C4: once the form has delivered a mutation, the item under the storage
\* key is the serialization of the document App holds.
C4_WriteThrough ==
    setDataCalls > 0 => (storage = Item(Stringify(data)) /\ blob = "saved")

C4_Witness ==
    /\ op.kind = "edit"
    /\ setDataCalls > 0
    /\ data # initialData
    /\ data # StoredDoc

\* C5: every change event runs its own cycle, in the step of that event:
\* one state replacement and a save of the whole document of that event,
\* so the stored item after the last event is the document of that event.
C5_EveryChangeSavesInOrder ==
    [][(Handled /\ op'.kind \in {"edit", "append", "remove"})
          => /\ setDataCalls' = setDataCalls + 1
             /\ saveCalls' > saveCalls
             /\ data' = formValues'
             /\ storage' = Item(Stringify(formValues'))]_vars

C5_Witness ==
    /\ events >= 2
    /\ setDataCalls = events
    /\ op.kind = "edit"
    /\ storage = Item(Stringify(formValues))

\* the Raw JSON text is not JSON: "{invalid", or the shown text cut short
NotJson(text, shown) ==
    \/ text = InvalidText
    \/ text = SubSeq(Stringify(shown), 1, Len(Stringify(shown)) - 1)

\* C6: a Raw JSON keystroke whose text does not parse leaves the form
\* values, App's document and the stored item as they were.
C6_InvalidJsonIgnored ==
    [][(Handled /\ op'.kind = "rawJson" /\ NotJson(op'.text, formValues))
          => /\ formValues' = formValues
             /\ data' = data
             /\ storage' = storage
             /\ setDataCalls' = setDataCalls
             /\ saveCalls' = saveCalls]_vars

C6_Witness ==
    /\ op.kind = "rawJson"
    /\ op.text = InvalidText
    /\ setDataCalls > 0
    /\ data = formValues

\* C7: a Raw JSON keystroke whose text is a valid full document makes
\* App's document the imported one in exactly one state transition and
\* with exactly one save.
C7_ImportOneTransitionOneSave ==
    [][(Handled /\ op'.kind = "rawJson" /\ op'.valid)
          => /\ Item(op'.text) = Item(Stringify(data'))
             /\ setDataCalls' = setDataCalls + 1
             /\ saveCalls' = saveCalls + 1]_vars

-----------------------------------------------------------------------------
(* components/ResumePreview.tsx.  The output of a render is the tree of    *)
(* elements, here the two columns, each a sequence of section blocks, each *)
(* block the sequence of the elements it shows.                            *)

Line(el, content) == [el |-> el, content |-> content]

\* [a, b].filter(Boolean)
FilterBoolean(q) == SelectSeq(q, Truthy)

RECURSIVE Flatten(_)

Flatten(qs) == IF qs = <<>> THEN <<>> ELSE Head(qs) \o Flatten(Tail(qs))

\* (x.start || x.end) && <div>{[x.start, x.end].filter(Boolean).join(" - ")}</div>
DatesLine(el, x) ==
    IF Truthy(Get(x, "start")) \/ Truthy(Get(x, "end"))
    THEN <<Line(el, FilterBoolean(<<Get(x, "start"), Get(x, "end")>>))>>
    ELSE <<>>

\* x.bullets && x.bullets.length > 0 && <ul>...</ul>
BulletsLine(el, x) ==
    IF Truthy(Get(x, "bullets")) /\ Len(Elems(Get(x, "bullets"))) > 0
    THEN <<Line(el, Elems(Get(x, "bullets")))>>
    ELSE <<>>

PositionLines(position) ==
    <<Line("position.title", <<Get(position, "title")>>)>>
    \o DatesLine("position.dates", position)
    \o BulletsLine("position.bullets", position)

LegacyLines(it) ==
    (IF Truthy(Get(it, "subheading"))
     THEN <<Line("subheading", <<Get(it, "subheading")>>)>> ELSE <<>>)
    \o DatesLine("dates", it)
    \o BulletsLine("bullets", it)

ItemHead(it) ==
    <<Line("heading", <<Get(it, "heading")>>)>>
    \o (IF Truthy(Get(it, "link"))
        THEN <<Line("link", <<Get(it, "link")>>)>> ELSE <<>>)
    \o (IF Truthy(Get(it, "meta"))
        THEN <<Line("meta", <<Get(it, "meta")>>)>> ELSE <<>>)

\* the positions branch taken whenever it.positions is truthy
TimelineItemLinesNoLength(it) ==
    ItemHead(it)
    \o (IF Truthy(Get(it, "positions"))
        THEN Flatten([i \in 1..Len(Elems(Get(it, "positions"))) |->
                        PositionLines(Elems(Get(it, "positions"))[i])])
        ELSE LegacyLines(it))

\* SectionBlock, one timeline item:
\*   it.positions && it.positions.length > 0 ? positions : legacy fields
TimelineItemLines(it) ==
    ItemHead(it)
    \o (IF Truthy(Get(it, "positions")) /\ Len(Elems(Get(it, "positions"))) > 0
        THEN Flatten([i \in 1..Len(Elems(Get(it, "positions"))) |->
                        PositionLines(Elems(Get(it, "positions"))[i])])
        ELSE LegacyLines(it))

GroupLines(g) ==
    <<Line("group.name", <<Get(g, "name")>>),
      Line("group.items", Elems(Get(g, "items")))>>

\* SectionBlock({ section }); key is the React key of the block (s.key)
SectionBlock(section) ==
    [key |-> Get(section, "key"),
     title |-> Get(section, "title"),
     items |->
        CASE Get(section, "type") = Str("rich") ->
                <<<<Line("content", <<Get(section, "content")>>)>>>>
          [] Get(section, "type") = Str("grouped") ->
                [i \in 1..Len(Elems(Get(section, "groups"))) |->
                    GroupLines(Elems(Get(section, "groups"))[i])]
          [] Get(section, "type") = Str("timeline") ->
                [i \in 1..Len(Elems(Get(section, "items"))) |->
                    TimelineItemLines(Elems(Get(section, "items"))[i])]
          [] OTHER -> <<>>]

\* (a, b) => a.order - b.order
compareOrder(a, b) == Get(a, "order").num - Get(b, "order").num

\* a sort that puts an element before the elements it ties with
InsertSortedUnstable(q, x) ==
    LET before == {i \in 1..Len(q) : compareOrder(q[i], x) < 0}
        n == IF before = {} THEN 0
             ELSE CHOOSE i \in before : \A j \in before : j <= i
    IN SubSeq(q, 1, n) \o <<x>> \o SubSeq(q, n + 1, Len(q))

\* Array.prototype.sort is stable: x goes after every element that does
\* not compare greater than it
InsertSorted(q, x) ==
    LET after == {i \in 1..Len(q) : compareOrder(q[i], x) > 0}
        n == IF after = {} THEN Len(q)
             ELSE (CHOOSE i \in after : \A j \in after : i <= j) - 1
    IN SubSeq(q, 1, n) \o <<x>> \o SubSeq(q, n + 1, Len(q))

RECURSIVE SortByOrder(_)

SortByOrder(q) ==
    IF q = <<>> THEN <<>>
    ELSE InsertSorted(SortByOrder(SubSeq(q, 1, Len(q) - 1)), q[Len(q)])

\* the column without the sort
ColumnUnsorted(d, placement) ==
    SelectSeq(Sections(d), LAMBDA s : Get(s, "placement") = Str(placement))

\* data.sections.filter((s) => s.placement === p).sort((a, b) => a.order - b.order)
Column(d, placement) ==
    SortByOrder(
        SelectSeq(Sections(d), LAMBDA s : Get(s, "placement") = Str(placement)))

\* Preview({ data })
Preview(d) ==
    [left |-> [i \in 1..Len(Column(d, "left")) |->
                    SectionBlock(Column(d, "left")[i])],
     right |-> [i \in 1..Len(Column(d, "right")) |->
                    SectionBlock(Column(d, "right")[i])]]

-----------------------------------------------------------------------------
(* The preview on its own: a document is given, the component renders.     *)

WithOptional(o, k, v) == IF v = Undefined THEN o ELSE Put(o, k, v)

PreviewKeys == <<"s1", "s2", "s3", "s4", "s5">>
PreviewOrders == {0, 1, 2}

\* documents with n sections of distinct keys, any placement, small orders
ColumnDocs ==
    UNION {
        {ResumeData("A", "T", <<>>, Num(30), Num(70),
            [i \in 1..n |->
                RichSection(PreviewKeys[i], PreviewKeys[i], f[i].placement,
                            Num(f[i].order), "c")]) :
         f \in [1..n -> [placement : {"left", "right"}, order : PreviewOrders]]}
        : n \in 2..MaxPreviewSections}

PreviewPositions ==
    {Undefined, Arr(<<>>),
     Arr(<<Obj([title |-> Str("Dev"), start |-> Str("2020"),
                bullets |-> Arr(<<Str("x")>>)])>>),
     Arr(<<Obj([title |-> Str("Dev"), end |-> Str("2022")]),
           Obj([title |-> Str("Lead")])>>)}

PreviewItems ==
    {WithOptional(WithOptional(WithOptional(WithOptional(
        Obj([heading |-> Str("H")]),
        "subheading", sub), "start", st), "bullets", bl), "positions", ps) :
        sub \in {Undefined, Str(""), Str("Sub")},
        st \in {Undefined, Str("2021")},
        bl \in {Undefined, Arr(<<>>), Arr(<<Str("b")>>)},
        ps \in PreviewPositions}

TimelineDocs ==
    {ResumeData("A", "T", <<>>, Num(30), Num(70),
        <<TimelineSection("t1", "Work", "left", Num(1), <<it>>)>>) :
     it \in PreviewItems}

PreviewInit ==
    /\ data \in ColumnDocs \cup TimelineDocs
    /\ rendered = Undefined
    /\ formValues = Undefined
    /\ storage = NoItem
    /\ blob = "absent"
    /\ op = [kind |-> "none"]
    /\ events = 0
    /\ setDataCalls = 0
    /\ saveCalls = 0
    /\ savedArg = Undefined
    /\ loadArg = Undefined
    /\ loadResult = Undefined
    /\ ExportIdle

\* Array.prototype.filter: the receiver is left alone, the result is a new
\* array
filter(q, placement) ==
    [receiver |-> q,
     result |-> SelectSeq(q, LAMBDA s : Get(s, "placement") = Str(placement))]

\* Array.prototype.sort sorts the receiver in place and returns it
sort(q) == [receiver |-> SortByOrder(q), result |-> SortByOrder(q)]

\* a Preview that sorts data.sections itself before filtering
sectionsAfterSortInPlace(d) ==
    LET l == sort(Sections(d))
        r == sort(filter(l.receiver, "left").receiver)
    IN filter(r.receiver, "right").receiver

\* data.sections when Preview has computed left and right
sectionsAfterPreview(d) ==
    LET l == filter(Sections(d), "left")
        ls == sort(l.result)
        r == filter(l.receiver, "right")
        rs == sort(r.result)
    IN r.receiver

\* <ResumePreview data={data} /> renders
Render ==
    /\ rendered = Undefined
    /\ rendered' = Preview(data)
    /\ data' = Put(data, "sections", Arr(sectionsAfterPreview(data)))
    /\ op' = [kind |-> "render"]
    /\ UNCHANGED <<storage, formValues, events, setDataCalls, saveCalls,
                   blob, savedArg, loadArg, loadResult, exportVars>>

PreviewNext == Render

SpecPreview == PreviewInit /\ [][PreviewNext]_vars

Placed(d, placement) ==
    {i \in 1..Len(Sections(d)) :
        Get(Sections(d)[i], "placement") = Str(placement)}

\* the index in the column of the block rendered for section i
BlockIndex(col, d, i) ==
    CHOOSE j \in 1..Len(col) : col[j].key = Get(Sections(d)[i], "key")

ColumnExact(col, d, placement) ==
    /\ Len(col) = Cardinality(Placed(d, placement))
    /\ \A i \in Placed(d, placement) :
          Cardinality({j \in 1..Len(col) :
                          col[j] = SectionBlock(Sections(d)[i])}) = 1

ColumnOrdered(col, d, placement) ==
    \A i, j \in Placed(d, placement) :
        Get(Sections(d)[i], "order").num < Get(Sections(d)[j], "order").num
            => BlockIndex(col, d, i) < BlockIndex(col, d, j)

C9_SortStable ==
    rendered # Undefined =>
        \A p \in {"left", "right"} : \A i, j \in Placed(data, p) :
            (i < j /\ Get(Sections(data)[i], "order")
                        = Get(Sections(data)[j], "order"))
                => BlockIndex(rendered[p], data, i)
                     < BlockIndex(rendered[p], data, j)

C9_Witness ==
    /\ rendered # Undefined
    /\ Len(Sections(data)) = 3
    /\ \A i \in 1..3 : Get(Sections(data)[i], "placement") = Str("right")
    /\ Get(Sections(data)[1], "order") = Num(1)
    /\ Get(Sections(data)[2], "order") = Num(0)
    /\ Get(Sections(data)[3], "order") = Num(1)
    /\ rendered.right[2].key = Str("s1")
    /\ rendered.right[3].key = Str("s3")

HasPositions(it) == Len(Elems(Get(it, "positions"))) > 0
ElementsOf(lines) == {lines[j].el : j \in 1..Len(lines)}
LegacyElements == {"subheading", "dates", "bullets"}
PositionElements == {"position.title", "position.dates", "position.bullets"}

ItemShown(lines, it) ==
    IF HasPositions(it)
    THEN /\ ElementsOf(lines) \cap LegacyElements = {}
         /\ \A k \in 1..Len(Elems(Get(it, "positions"))) :
               \E j \in 1..Len(lines) :
                   lines[j] = Line("position.title",
                        <<Get(Elems(Get(it, "positions"))[k], "title")>>)
    ELSE /\ ElementsOf(lines) \cap PositionElements = {}
         /\ Truthy(Get(it, "subheading"))
               <=> \E j \in 1..Len(lines) :
                     lines[j] = Line("subheading", <<Get(it, "subheading")>>)
         /\ (Truthy(Get(it, "start")) \/ Truthy(Get(it, "end")))
               <=> "dates" \in ElementsOf(lines)
         /\ Len(Elems(Get(it, "bullets"))) > 0
               <=> \E j \in 1..Len(lines) :
                     lines[j] = Line("bullets", Elems(Get(it, "bullets")))

TimelineSections(d) ==
    {i \in 1..Len(Sections(d)) : Get(Sections(d)[i], "type") = Str("timeline")}

\* C10: a timeline item with a non-empty positions list is rendered with
\* its positions and none of the legacy fields, also when those are
\* present; with positions absent or empty the legacy fields are rendered.
C10_PositionsExclusive ==
    rendered # Undefined =>
        \A i \in TimelineSections(data) :
            LET s == Sections(data)[i]
                p == Get(s, "placement").str
                b == rendered[p][BlockIndex(rendered[p], data, i)]
            IN /\ Len(b.items) = Len(Elems(Get(s, "items")))
               /\ \A k \in 1..Len(b.items) :
                     ItemShown(b.items[k], Elems(Get(s, "items"))[k])

C10_Witness ==
    /\ rendered # Undefined
    /\ TimelineSections(data) = {1}
    /\ LET it == Elems(Get(Sections(data)[1], "items"))[1] IN
          /\ HasPositions(it)
          /\ Truthy(Get(it, "subheading"))
          /\ Truthy(Get(it, "start"))
          /\ Len(Elems(Get(it, "bullets"))) > 0
    /\ "position.title" \in ElementsOf(rendered.left[1].items[1])

C10_WitnessLegacy ==
    /\ rendered # Undefined
    /\ TimelineSections(data) = {1}
    /\ Get(Elems(Get(Sections(data)[1], "items"))[1], "positions") = Arr(<<>>)
    /\ "subheading" \in ElementsOf(rendered.left[1].items[1])

-----------------------------------------------------------------------------
(* components/ResumePreview.tsx: the href of a contact entry.  Strings     *)
(* whose characters matter are sequences of one-character strings.         *)

HttpPrefix == <<"h", "t", "t", "p", ":", "/", "/">>
HttpsPrefix == <<"h", "t", "t", "p", "s", ":", "/", "/">>
TelPrefix == <<"t", "e", "l", ":">>
MailtoPrefix == <<"m", "a", "i", "l", "t", "o", ":">>

\* String.prototype.startsWith
startsWith(s, prefix) ==
    /\ Len(s) >= Len(prefix)
    /\ SubSeq(s, 1, Len(prefix)) = prefix

\* a formatUrl that knows one protocol only
formatUrlHttpsOnly(url, type) ==
    IF type = Str("link")
    THEN IF ~startsWith(url, HttpsPrefix) THEN HttpsPrefix \o url ELSE url
    ELSE url

\* const formatUrl = (url: string, type: string) => ...
formatUrl(url, type) ==
    IF type = Str("link")
    THEN IF ~startsWith(url, HttpPrefix) /\ ~startsWith(url, HttpsPrefix)
         THEN HttpsPrefix \o url
         ELSE url
    ELSE url

\* href={c.type === "link" ? formatUrl(c.value, c.type)
\*       : c.type === "phone" ? `tel:${c.value}` : `mailto:${c.value}`}
ContactHref(c) ==
    IF Get(c, "type") = Str("link")
    THEN formatUrl(Get(c, "value").str, Get(c, "type"))
    ELSE IF Get(c, "type") = Str("phone")
         THEN TelPrefix \o Get(c, "value").str
         ELSE MailtoPrefix \o Get(c, "value").str

\* data.meta.contact.map((c, i) => <a href={...} key={i}>{c.label}</a>)
ContactAnchors(d) ==
    [i \in 1..Len(Contacts(d)) |->
        [href |-> ContactHref(Contacts(d)[i]),
         label |-> Get(Contacts(d)[i], "label")]]

ValueHeads ==
    {<<>>, HttpPrefix, HttpsPrefix,
     <<"h", "t", "t", "p">>, <<"h", "t", "t", "p", ":", "/">>,
     <<"H", "T", "T", "P", ":", "/", "/">>, <<"f", "t", "p", ":", "/", "/">>,
     <<"+">>, <<"/", "/">>}
ValueTails == {<<>>, <<"a">>, <<"a", ".", "b">>, <<"1", "2">>}
ContactValues == {h \o t : h \in ValueHeads, t \in ValueTails}
ContactTypes == {"link", "phone", "email"}

ContactDocs ==
    {ResumeData("A", "T", <<Contact("L", v, t)>>, Num(30), Num(70), <<>>) :
        v \in ContactValues, t \in ContactTypes}

ContactInit ==
    /\ data \in ContactDocs
    /\ rendered = Undefined
    /\ formValues = Undefined
    /\ storage = NoItem
    /\ blob = "absent"
    /\ op = [kind |-> "none"]
    /\ events = 0
    /\ setDataCalls = 0
    /\ saveCalls = 0
    /\ savedArg = Undefined
    /\ loadArg = Undefined
    /\ loadResult = Undefined
    /\ ExportIdle

\* the header of <ResumePreview data={data} /> renders
RenderContacts ==
    /\ rendered = Undefined
    /\ rendered' = [anchors |-> ContactAnchors(data)]
    /\ op' = [kind |-> "renderContacts"]
    /\ UNCHANGED <<storage, data, formValues, events, setDataCalls, saveCalls,
                   blob, savedArg, loadArg, loadResult, exportVars>>

ContactNext == RenderContacts

SpecContact == ContactInit /\ [][ContactNext]_vars

HasProtocol(v) ==
    \/ (Len(v) >= 7 /\ \A j \in 1..7 : v[j] = HttpPrefix[j])
    \/ (Len(v) >= 8 /\ \A j \in 1..8 : v[j] = HttpsPrefix[j])

\* C11: the href of a rendered contact entry follows from its type: a link
\* keeps a value that starts with http:// or https:// and gets "https://"
\* put in front otherwise; a phone gets "tel:" and an email "mailto:" put
\* in front of the value.
C11_HrefByType ==
    op.kind = "renderContacts" =>
        \A i \in 1..Len(Contacts(data)) :
            LET c == Contacts(data)[i]
                v == Get(c, "value").str
                h == rendered.anchors[i].href
            IN /\ Get(c, "type") = Str("link") /\ HasProtocol(v) => h = v
               /\ Get(c, "type") = Str("link") /\ ~HasProtocol(v)
                     => h = <<"h", "t", "t", "p", "s", ":", "/", "/">> \o v
               /\ Get(c, "type") = Str("phone")
                     => h = <<"t", "e", "l", ":">> \o v
               /\ Get(c, "type") = Str("email")
                     => h = <<"m", "a", "i", "l", "t", "o", ":">> \o v

C11_Witness ==
    /\ op.kind = "renderContacts"
    /\ Get(Contacts(data)[1], "type") = Str("link")
    /\ Get(Contacts(data)[1], "value").str = <<"a", ".", "b">>
    /\ rendered.anchors[1].href
          = <<"h", "t", "t", "p", "s", ":", "/", "/", "a", ".", "b">>

-----------------------------------------------------------------------------
(* components/PdfDownloadButton: the export pipeline.  Two components of   *)
(* that name exist: part_002 (new window, react-to-print, iframe, bare     *)
(* print) and part_003 (hidden iframe, same-page replacement, print with   *)
(* the title set).  A handler works on a record s of the page state and    *)
(* returns the record it leaves; s.log collects what the handler did for   *)
(* the click it belongs to.  targetRef.current is the <article> of the     *)
(* preview, which is mounted whenever the button can be clicked.           *)

MaxClicks == 2
MaxErrorCallbacks == 2

FileName == "resume"
FileNamePdf == "resume.pdf"

NoSnap == [title |-> "", body |-> [content |-> "", iframes |-> {}],
           bodyClass |-> "", titleMeta |-> ""]

Timer(id, task, orig) == [id |-> id, task |-> task, orig |-> orig, n |-> 0]

Ev(stage, ev) == [stage |-> stage, ev |-> ev, orig |-> NoSnap]
EvSnap(stage, ev, orig) == [stage |-> stage, ev |-> ev, orig |-> orig]

\* the page as the handler of click id finds it
PageState(id) ==
    [id |-> id, dom |-> dom, timers |-> timers, listeners |-> listeners,
     isProcessing |-> isProcessing, didErrorRef |-> didErrorRef,
     printStylesRef |-> printStylesRef, log |-> <<>>]

Logged(s, evs) ==
    [s EXCEPT !.log = @ \o [j \in 1..Len(evs) |->
                               [id |-> s.id, stage |-> evs[j].stage,
                                ev |-> evs[j].ev, orig |-> evs[j].orig]]]

\* what window.open, the iframe document and a print call can do
WindowOutcomes == {"blocked", "throws", "ok"}
IframeOutcomes == {"noDoc", "throws", "ok"}
PrintOutcomes == {"ok", "throws"}

PrintEv(pr) == IF pr = "ok" THEN "print" ELSE "printThrew"

\* ---- part_002 ----

\* openWindowPrint: window.open, doc.write, setTimeout(doPrint, 400).
\* A blocked popup (if (!win) return false) and a throwing write (catch
\* { return false }) leave the page alone and report the same failure.
openWindowPrint(s, id, w) ==
    IF w = "ok"
    THEN [ok |-> TRUE,
          s |-> Logged([s EXCEPT !.timers = @ \cup {Timer(id, "doPrint", NoSnap)}],
                       <<Ev("window", "attempt"), Ev("window", "ok")>>)]
    ELSE [ok |-> FALSE,
          s |-> Logged(s, <<Ev("window", "attempt"), Ev("window", "failed")>>)]

\* fallbackIframePrint: appendChild(iframe), doc.write,
\* setTimeout(onLoadAndPrint, 300)
fallbackIframePrint(s, id, f) ==
    LET appended == [s EXCEPT !.dom.body.iframes = @ \cup {id}] IN
    IF f = "ok"
    THEN [ok |-> TRUE,
          s |-> Logged([appended EXCEPT
                           !.timers = @ \cup {Timer(id, "onLoadAndPrint", NoSnap)}],
                       <<Ev("iframe", "attempt"), Ev("iframe", "ok")>>)]
    ELSE [ok |-> FALSE,
          s |-> Logged(appended,
                       <<Ev("iframe", "attempt"), Ev("iframe", "failed")>>)]

\* window.print() with nothing done before it
windowPrint(s, pr) ==
    Logged(s, <<Ev("bare", "attempt"), Ev("bare", PrintEv(pr))>>)

\* onPrintError without the didErrorRef guard
onPrintErrorUnguarded(s, id, w, f, pr) ==
    LET okWin == openWindowPrint(s, id, w) IN
    IF okWin.ok THEN okWin.s
    ELSE LET okIframe == fallbackIframePrint(okWin.s, id, f) IN
         IF okIframe.ok THEN okIframe.s ELSE windowPrint(okIframe.s, pr)

\* useReactToPrint({ onPrintError: () => { if (!didErrorRef.current) ... } })
onPrintError(s, id, w, f, pr) ==
    IF ~s.didErrorRef
    THEN LET okWin == openWindowPrint([s EXCEPT !.didErrorRef = TRUE], id, w) IN
         IF okWin.ok THEN okWin.s
         ELSE LET okIframe == fallbackIframePrint(okWin.s, id, f) IN
              IF okIframe.ok THEN okIframe.s ELSE windowPrint(okIframe.s, pr)
    ELSE s

\* useReactToPrint returns a function: typeof handlePrint === "function"
HandlePrintIsFunction == TRUE

\* handlePrint(): react-to-print takes over; it prints or reports an error
handlePrint(s, id) ==
    Logged([s EXCEPT !.timers = @ \cup {Timer(id, "reactToPrint", NoSnap)}],
           <<Ev("reactToPrint", "attempt")>>)

\* an onClick that goes from the window straight to the iframe
onClick002IframeFirst(s, id, w, f, pr) ==
    LET okWin == openWindowPrint([s EXCEPT !.didErrorRef = FALSE], id, w) IN
    IF okWin.ok THEN okWin.s
    ELSE LET okIframe == fallbackIframePrint(okWin.s, id, f) IN
         IF okIframe.ok THEN okIframe.s ELSE handlePrint(okIframe.s, id)

\* part_002 onClick
onClick002(s, id, w, f, pr) ==
    LET okWin == openWindowPrint([s EXCEPT !.didErrorRef = FALSE], id, w) IN
    IF okWin.ok THEN okWin.s
    ELSE IF HandlePrintIsFunction THEN handlePrint(okWin.s, id)
    ELSE LET okIframe == fallbackIframePrint(okWin.s, id, f) IN
         IF okIframe.ok THEN okIframe.s ELSE windowPrint(okIframe.s, pr)

\* ---- part_003 ----

\* const originalTitle = document.title; const originalBodyContent = ...
Snapshot(s) ==
    [title |-> s.dom.title, body |-> s.dom.body,
     bodyClass |-> s.dom.bodyClass, titleMeta |-> s.dom.titleMeta]

\* the cleanup closure of printOnSamePage
cleanup(s, orig) ==
    LET restored == [s EXCEPT !.dom.body = orig.body,
                              !.dom.bodyClass = orig.bodyClass,
                              !.dom.title = orig.title]
        removed ==
            IF restored.printStylesRef # 0
               /\ restored.printStylesRef \in restored.dom.styleTags
            THEN [restored EXCEPT !.dom.styleTags = @ \ {restored.printStylesRef},
                                  !.printStylesRef = 0]
            ELSE restored
    IN [removed EXCEPT !.isProcessing = FALSE]

\* printOnSamePage up to and including window.print()
SamePageReplaced(s, id) ==
    [s EXCEPT !.isProcessing = TRUE,
              !.dom.title = FileName,
              !.dom.styleTags = @ \cup {id},
              !.printStylesRef = id,
              !.dom.body = [content |-> "resume", iframes |-> {}],
              !.dom.bodyClass = "print-preview"]

\* a printOnSamePage that never sets the fallback timer
printOnSamePageNoTimeout(s, id, pr) ==
    LET orig == Snapshot(s)
        replaced == SamePageReplaced(s, id)
    IN IF pr = "throws"
       THEN [ok |-> FALSE,
             s |-> Logged([replaced EXCEPT !.isProcessing = FALSE],
                     <<EvSnap("samePage", "attempt", orig),
                       Ev("samePage", "printThrew"), Ev("samePage", "failed")>>)]
       ELSE [ok |-> TRUE,
             s |-> Logged([replaced EXCEPT
                             !.listeners = Append(@, [id |-> id, orig |-> orig])],
                     <<EvSnap("samePage", "attempt", orig), Ev("samePage", "print"),
                       Ev("samePage", "ok")>>)]

\* printOnSamePage: the catch block logs and clears isProcessing
printOnSamePage(s, id, pr) ==
    LET orig == Snapshot(s)
        replaced == SamePageReplaced(s, id)
    IN IF pr = "throws"
       THEN [ok |-> FALSE,
             s |-> Logged([replaced EXCEPT !.isProcessing = FALSE],
                     <<EvSnap("samePage", "attempt", orig),
                       Ev("samePage", "printThrew"), Ev("samePage", "failed")>>)]
       ELSE [ok |-> TRUE,
             s |-> Logged([replaced EXCEPT
                             !.listeners = Append(@, [id |-> id, orig |-> orig]),
                             !.timers = @ \cup {Timer(id, "cleanup", orig)}],
                     <<EvSnap("samePage", "attempt", orig), Ev("samePage", "print"),
                       Ev("samePage", "ok")>>)]

\* printWithHiddenIframe: appendChild(iframe), iframeDoc.write,
\* iframe.onload = () => setTimeout(..., 500)
printWithHiddenIframe(s, id, f) ==
    IF f = "noDoc"
    THEN [ok |-> FALSE,
          s |-> Logged([s EXCEPT !.isProcessing = FALSE],
                       <<Ev("iframe", "attempt"), Ev("iframe", "failed")>>)]
    ELSE IF f = "throws"
    THEN [ok |-> FALSE,
          s |-> Logged([s EXCEPT !.isProcessing = FALSE,
                                 !.dom.body.iframes = @ \cup {id}],
                       <<Ev("iframe", "attempt"), Ev("iframe", "failed")>>)]
    ELSE [ok |-> TRUE,
          s |-> Logged([s EXCEPT !.isProcessing = TRUE,
                                 !.dom.body.iframes = @ \cup {id},
                                 !.timers = @ \cup {Timer(id, "load", NoSnap)}],
                       <<Ev("iframe", "attempt"), Ev("iframe", "ok")>>)]

\* printSimple: sets the title and the title meta tag, then
\* setTimeout(() => { window.print(); setTimeout(restore, 1000) }, 100)
printSimple(s, id) ==
    LET orig == [Snapshot(s) EXCEPT
                    !.titleMeta = IF s.dom.titleMeta = "none" THEN "" ELSE @]
    IN Logged([s EXCEPT !.dom.title = FileNamePdf,
                        !.dom.titleMeta = FileNamePdf,
                        !.timers = @ \cup {Timer(id, "simplePrint", orig)}],
              <<Ev("bare", "attempt")>>)

\* part_003 onClick
onClick003(s, id, f, pr) ==
    LET iframeSuccess == printWithHiddenIframe(s, id, f) IN
    IF iframeSuccess.ok THEN iframeSuccess.s
    ELSE LET samePageSuccess == printOnSamePage(iframeSuccess.s, id, pr) IN
         IF samePageSuccess.ok THEN samePageSuccess.s
         ELSE printSimple(samePageSuccess.s, id)

\* ---- the event loop ----

EventsOf(log, i) == SelectSeq(log, LAMBDA e : e.id = i)

\* the handler returns: the page is as it left it
Commit(s) ==
    /\ dom' = s.dom
    /\ timers' = s.timers
    /\ listeners' = s.listeners
    /\ isProcessing' = s.isProcessing
    /\ didErrorRef' = s.didErrorRef
    /\ printStylesRef' = s.printStylesRef
    /\ trace' = [i \in 1..(IF s.id > Len(trace) THEN s.id ELSE Len(trace)) |->
                    (IF i <= Len(trace) THEN trace[i] ELSE <<>>)
                        \o EventsOf(s.log, i)]

\* an export that stores the document it is about to print
EditLoopSavedOnExport ==
    /\ storage' = save(data)
    /\ blob' = "saved"
    /\ UNCHANGED <<data, formValues, op, setDataCalls, saveCalls,
                   savedArg, loadArg, loadResult, rendered, pdfButton>>

EditLoopUntouched ==
    UNCHANGED <<storage, data, formValues, op, setDataCalls, saveCalls, blob,
                savedArg, loadArg, loadResult, rendered, pdfButton>>

Without(s, t) == [s EXCEPT !.timers = @ \ {t}]
Followed(s, t, task) ==
    [s EXCEPT !.timers = (@ \ {t}) \cup {Timer(t.id, task, t.orig)}]

\* the button is part of the page unless the body has been replaced
ButtonShown == dom.body.content = "app"

\* <Button onClick={onClick}> of part_002
Click002 ==
    /\ pdfButton = "part_002"
    /\ ButtonShown
    /\ events < MaxClicks
    /\ events' = events + 1
    /\ clicks' = clicks + 1
    /\ \E w \in WindowOutcomes, f \in IframeOutcomes, pr \in PrintOutcomes :
          Commit(onClick002(PageState(clicks + 1), clicks + 1, w, f, pr))
    /\ EditLoopUntouched

\* the button of part_003 without disabled={isProcessing}
Click003NeverDisabled ==
    /\ pdfButton = "part_003"
    /\ ButtonShown
    /\ events < MaxClicks
    /\ events' = events + 1
    /\ clicks' = clicks + 1
    /\ \E f \in IframeOutcomes, pr \in PrintOutcomes :
          Commit(onClick003(PageState(clicks + 1), clicks + 1, f, pr))
    /\ EditLoopUntouched

\* <Button onClick={onClick} disabled={isProcessing}> of part_003
Click003 ==
    /\ pdfButton = "part_003"
    /\ ButtonShown
    /\ ~isProcessing
    /\ events < MaxClicks
    /\ events' = events + 1
    /\ clicks' = clicks + 1
    /\ \E f \in IframeOutcomes, pr \in PrintOutcomes :
          Commit(onClick003(PageState(clicks + 1), clicks + 1, f, pr))
    /\ EditLoopUntouched

\* the disabled button is pressed: no click event reaches onClick
ClickDisabled ==
    /\ pdfButton = "part_003"
    /\ ButtonShown
    /\ isProcessing
    /\ events < MaxClicks
    /\ events' = events + 1
    /\ UNCHANGED <<dom, timers, listeners, isProcessing, didErrorRef,
                   printStylesRef, trace, clicks>>
    /\ EditLoopUntouched

\* react-to-print prints the content
ReactToPrintPrints ==
    \E t \in timers :
        /\ t.task = "reactToPrint" /\ t.n = 0
        /\ Commit(Logged(Without(PageState(t.id), t),
                         <<Ev("reactToPrint", "print"), Ev("reactToPrint", "ok")>>))
        /\ UNCHANGED <<events, clicks>>
        /\ EditLoopUntouched

\* react-to-print calls onPrintError; it may call it again later
ReactToPrintError ==
    \E t \in timers :
        /\ t.task = "reactToPrint" /\ t.n < MaxErrorCallbacks
        /\ \E w \in WindowOutcomes, f \in IframeOutcomes, pr \in PrintOutcomes :
           \E again \in {[t EXCEPT !.n = @ + 1]} \cup {t} :
            LET s0 == PageState(t.id)
                s1 == Logged([s0 EXCEPT !.timers =
                                 IF again = t \/ again.n = MaxErrorCallbacks
                                 THEN @ \ {t}
                                 ELSE (@ \ {t}) \cup {again}],
                             <<Ev("reactToPrint", "failed")>>)
            IN Commit(onPrintError(s1, t.id, w, f, pr))
        /\ UNCHANGED <<events, clicks>>
        /\ EditLoopUntouched

\* doPrint of openWindowPrint: try { win.focus(); win.print() } finally { setTimeout(...) }
DoPrint ==
    \E t \in timers : \E pr \in PrintOutcomes :
        /\ t.task = "doPrint"
        /\ Commit(Logged(Followed(PageState(t.id), t, "closeWindow"),
                         <<Ev("window", PrintEv(pr))>>))
        /\ UNCHANGED <<events, clicks>>
        /\ EditLoopUntouched

\* the 1000 ms timer of doPrint: win.close() is commented out
CloseWindow ==
    \E t \in timers :
        /\ t.task = "closeWindow"
        /\ Commit(Without(PageState(t.id), t))
        /\ UNCHANGED <<events, clicks>>
        /\ EditLoopUntouched

\* onLoadAndPrint of fallbackIframePrint
OnLoadAndPrint ==
    \E t \in timers : \E pr \in PrintOutcomes :
        /\ t.task = "onLoadAndPrint"
        /\ Commit(Logged(Followed(PageState(t.id), t, "removeIframe"),
                         <<Ev("iframe", PrintEv(pr))>>))
        /\ UNCHANGED <<events, clicks>>
        /\ EditLoopUntouched

\* the 1000 ms timer after the iframe's print:
\*   part_002: document.body.removeChild(iframe)
\*   part_003: if (document.body.contains(iframe)) removeChild; setIsProcessing(false)
RemoveIframe ==
    \E t \in timers :
        /\ t.task = "removeIframe"
        /\ LET s0 == Without(PageState(t.id), t)
               s1 == [s0 EXCEPT !.dom.body.iframes = @ \ {t.id}]
           IN Commit(Logged(IF pdfButton = "part_003"
                            THEN [s1 EXCEPT !.isProcessing = FALSE]
                            ELSE s1,
                            <<Ev("iframe", "removed")>>))
        /\ UNCHANGED <<events, clicks>>
        /\ EditLoopUntouched

\* the iframe's load event: iframe.onload = () => { setTimeout(..., 500) }
IframeLoad ==
    \E t \in timers :
        /\ t.task = "load"
        /\ Commit(Logged(Followed(PageState(t.id), t, "settle"),
                         <<Ev("iframe", "load")>>))
        /\ UNCHANGED <<events, clicks>>
        /\ EditLoopUntouched

\* the 500 ms timer: try { iframeWindow.print() } catch { log }
\*                   finally { setTimeout(remove, 1000) }
IframeSettle ==
    \E t \in timers : \E pr \in PrintOutcomes :
        /\ t.task = "settle"
        /\ Commit(Logged(Followed(PageState(t.id), t, "removeIframe"),
                         <<Ev("iframe", PrintEv(pr))>>))
        /\ UNCHANGED <<events, clicks>>
        /\ EditLoopUntouched

\* setTimeout(cleanup, 10000) fires
CleanupTimeout ==
    \E t \in timers :
        /\ t.task = "cleanup"
        /\ Commit(Logged(cleanup(Without(PageState(t.id), t), t.orig),
                         <<Ev("samePage", "restored")>>))
        /\ UNCHANGED <<events, clicks>>
        /\ EditLoopUntouched

RECURSIVE RunAfterPrint(_, _)
\* every handleAfterPrint that is registered runs: cleanup(), removeEventListener
RunAfterPrint(s, ls) ==
    IF ls = <<>> THEN s
    ELSE RunAfterPrint(
            Logged(cleanup([s EXCEPT !.id = Head(ls).id,
                                     !.listeners = Tail(@)], Head(ls).orig),
                   <<Ev("samePage", "restored")>>),
            Tail(ls))

\* the window's afterprint event (a print dialog was closed)
AfterPrint ==
    /\ listeners # <<>>
    /\ Commit(RunAfterPrint(PageState(Head(listeners).id), listeners))
    /\ UNCHANGED <<events, clicks>>
    /\ EditLoopUntouched

\* the window's beforeprint event: handleBeforePrint clears the body class
BeforePrint ==
    /\ listeners # <<>>
    /\ dom.bodyClass # ""
    /\ Commit([PageState(Head(listeners).id) EXCEPT !.dom.bodyClass = ""])
    /\ UNCHANGED <<events, clicks>>
    /\ EditLoopUntouched

\* the 100 ms timer of printSimple: window.print(); setTimeout(restore, 1000)
SimplePrint ==
    \E t \in timers : \E pr \in PrintOutcomes :
        /\ t.task = "simplePrint"
        /\ Commit(Logged(IF pr = "ok"
                         THEN Followed(PageState(t.id), t, "simpleRestore")
                         ELSE Without(PageState(t.id), t),
                         <<Ev("bare", PrintEv(pr))>>))
        /\ UNCHANGED <<events, clicks>>
        /\ EditLoopUntouched

\* the 1000 ms timer of printSimple: title and title meta put back
SimpleRestore ==
    \E t \in timers :
        /\ t.task = "simpleRestore"
        /\ Commit(Logged([Without(PageState(t.id), t) EXCEPT
                            !.dom.title = t.orig.title,
                            !.dom.titleMeta = IF t.orig.titleMeta # ""
                                              THEN t.orig.titleMeta ELSE "none",
                            !.isProcessing = FALSE],
                         <<Ev("bare", "restored")>>))
        /\ UNCHANGED <<events, clicks>>
        /\ EditLoopUntouched

TitleMetas == {"none", "app"}

ExportInit ==
    /\ \/ pdfButton = "part_002" /\ dom = PageAtRest
       \/ /\ pdfButton = "part_003"
          /\ dom \in {[PageAtRest EXCEPT !.titleMeta = m] : m \in TitleMetas}
    /\ timers = {}
    /\ listeners = <<>>
    /\ isProcessing = FALSE
    /\ didErrorRef = FALSE
    /\ printStylesRef = 0
    /\ trace = <<>>
    /\ clicks = 0
    /\ data = initialData
    /\ formValues = initialData
    /\ storage = NoItem
    /\ blob = "absent"
    /\ op = [kind |-> "none"]
    /\ events = 0
    /\ setDataCalls = 0
    /\ saveCalls = 0
    /\ savedArg = Undefined
    /\ loadArg = Undefined
    /\ loadResult = Undefined
    /\ rendered = Undefined

TimerFires ==
    \/ DoPrint
    \/ CloseWindow
    \/ OnLoadAndPrint
    \/ RemoveIframe
    \/ IframeSettle
    \/ CleanupTimeout
    \/ SimplePrint
    \/ SimpleRestore

ExportNext ==
    \/ Click002
    \/ Click003
    \/ ClickDisabled
    \/ ReactToPrintPrints
    \/ ReactToPrintError
    \/ IframeLoad
    \/ AfterPrint
    \/ BeforePrint
    \/ TimerFires

SpecExport == ExportInit /\ [][ExportNext]_vars

\* part_003 mounted.  A timer that has been set fires; the events (load,
\* beforeprint, afterprint) may never come.
Export003Init == ExportInit /\ pdfButton = "part_003"

Export003Next ==
    \/ Click003
    \/ ClickDisabled
    \/ IframeLoad
    \/ AfterPrint
    \/ BeforePrint
    \/ IframeSettle
    \/ RemoveIframe
    \/ CleanupTimeout
    \/ SimplePrint
    \/ SimpleRestore

SpecExport003Fair ==
    /\ Export003Init
    /\ [][Export003Next]_vars
    /\ WF_vars(IframeSettle)
    /\ WF_vars(RemoveIframe)
    /\ WF_vars(CleanupTimeout)
    /\ WF_vars(SimplePrint)
    /\ WF_vars(SimpleRestore)

-----------------------------------------------------------------------------
(* Properties of the export pipeline, read off the trace of each click *)

Count(tr, stage, ev) ==
    Len(SelectSeq(tr, LAMBDA e : e.stage = stage /\ e.ev = ev))

Pending(i) == \E t \in timers : t.id = i
Finished(i) == ~Pending(i)

\* the click found the isolated-window stage blocked: openWindowPrint
\* returned false
BlockedAtClick(tr) ==
    /\ Len(tr) >= 2
    /\ tr[1].stage = "window" /\ tr[1].ev = "attempt"
    /\ tr[2].stage = "window" /\ tr[2].ev = "failed"

Chain ==
    IF pdfButton = "part_002"
    THEN <<"window", "reactToPrint", "iframe", "bare">>
    ELSE <<"iframe", "samePage", "bare">>

Rank(stage) == CHOOSE r \in 1..Len(Chain) : Chain[r] = stage

Is(e, stage, ev) == e.stage = stage /\ e.ev = ev

\* every attempt of a stage comes after a failure of each earlier stage
AfterEarlierFailed(tr) ==
    \A k \in 1..Len(tr) :
        tr[k].ev = "attempt" =>
            \A r \in 1..(Rank(tr[k].stage) - 1) :
                \E j \in 1..(k - 1) : Is(tr[j], Chain[r], "failed")

\* after a stage has reported success no later stage is attempted
NoneAfterSuccess(tr) ==
    \A j \in 1..Len(tr) : \A k \in (j + 1)..Len(tr) :
        tr[j].ev = "ok" /\ tr[k].ev = "attempt"
            => Rank(tr[k].stage) <= Rank(tr[j].stage)

\* the stages whose print call went through
StagesThatPrinted(tr) ==
    {tr[k].stage : k \in {j \in 1..Len(tr) : tr[j].ev = "print"}}

\* C13: within one click a stage is attempted only after every earlier stage
\* of the chain has failed; once a stage has reported success no later stage
\* is attempted for that click, so at most one stage gets to print.
C13_NextStageOnlyOnFailure ==
    \A i \in 1..Len(trace) :
        /\ AfterEarlierFailed(trace[i])
        /\ NoneAfterSuccess(trace[i])
        /\ Cardinality(StagesThatPrinted(trace[i])) <= 1

Failures == {"failed", "printThrew"}

\* every failure of a stage that is not the last resort is followed by an
\* attempt of another stage
FailureFallsThrough(tr) ==
    \A k \in 1..Len(tr) :
        tr[k].ev \in Failures /\ Rank(tr[k].stage) < Len(Chain) =>
            \E j \in (k + 1)..Len(tr) :
                tr[j].ev = "attempt" /\ tr[j].stage # tr[k].stage

\* C14: every failure of an export stage (popup blocked, the write throwing,
\* the print call throwing, also in the delayed continuation) leads to the
\* next stage being attempted: when the click's work is over, each failure
\* has been followed by an attempt of the next stage.
C14_EveryFailureFallsThrough ==
    \A i \in 1..Len(trace) : Finished(i) => FailureFallsThrough(trace[i])

IframeAttached(i) == i \in dom.body.iframes

\* C15: the temporary iframe of the hidden-iframe stage is removed on every
\* exit path: once none of the click's timers is pending any more, its
\* iframe is no longer attached to the document body.
C15_IframeRemovedOnEveryPath ==
    \A i \in 1..Len(trace) : Finished(i) => ~IframeAttached(i)

SamePageFailed(tr) == \E k \in 1..Len(tr) : Is(tr[k], "samePage", "failed")

\* body content, body class and title are the application's own and the
\* style tag of click i is gone
PageRestored(i) ==
    /\ dom.body.content = PageAtRest.body.content
    /\ dom.bodyClass = PageAtRest.bodyClass
    /\ dom.title = PageAtRest.title
    /\ i \notin dom.styleTags

\* C16: the same-page replacement stage is reversible on its error path too:
\* if it throws after the body, the body class or the title has been replaced
\* or the style tag injected, then, once the click's work is over, body
\* content, body class and title are the original ones again and the style
\* tag is removed.
C16_SamePageRestoredOnError ==
    \A i \in 1..Len(trace) :
        SamePageFailed(trace[i]) /\ Finished(i) => PageRestored(i)

\* the snapshots click i took for its same-page stage
SnapshotsOf(i) ==
    {trace[i][k].orig :
        k \in {j \in 1..Len(trace[i]) : Is(trace[i][j], "samePage", "attempt")}}

\* the same-page stage of click i has invoked print and the page has not
\* been put back since
SamePagePrinted(i) ==
    /\ i <= Len(trace)
    /\ \E k \in 1..Len(trace[i]) : Is(trace[i][k], "samePage", "print")
    /\ \A k \in 1..Len(trace[i]) : ~Is(trace[i][k], "samePage", "restored")

\* cleanup of click i has run and the page is the one the click found
SamePageRestored(i) ==
    /\ i <= Len(trace)
    /\ \E k \in 1..Len(trace[i]) : Is(trace[i][k], "samePage", "restored")
    /\ \E o \in SnapshotsOf(i) :
          /\ dom.body = o.body
          /\ dom.title = o.title
          /\ dom.body.content = PageAtRest.body.content

\* C17: after the same-page replacement stage has invoked print, the
\* original body content and document title are eventually restored, by the
\* afterprint handler or else by the timeout, also when afterprint never
\* fires.
C17_SamePageEventuallyRestored ==
    \A i \in 1..MaxClicks : SamePagePrinted(i) ~> SamePageRestored(i)

\* restored by the timeout while the afterprint listener is still waiting
C17_Witness ==
    /\ SamePageRestored(1)
    /\ dom.title = PageAtRest.title
    /\ \E k \in 1..Len(listeners) : listeners[k].id = 1
    /\ ~Pending(1)

\* the last resort is attempted only after every other stage has failed
BareOnlyAfterAllFailed(tr) ==
    \A k \in 1..Len(tr) :
        Is(tr[k], "bare", "attempt") =>
            \A r \in 1..(Len(Chain) - 1) :
                \E j \in 1..(k - 1) : Is(tr[j], Chain[r], "failed")

BarePrintCalls(tr) == Count(tr, "bare", "print") + Count(tr, "bare", "printThrew")

\* a print call of the last resort that is still to come finds title and
\* title meta as they were when the stage began
BarePrintUnprepared ==
    \A t \in timers :
        t.task = "simplePrint" =>
            /\ dom.title = t.orig.title
            /\ dom.titleMeta = IF t.orig.titleMeta = "" THEN "none"
                               ELSE t.orig.titleMeta

\* C18: the bare platform print is reached only when every prepared stage has
\* failed for that click; it is then called exactly once, and with no
\* preparation: nothing of the page, the title or the meta tags is changed
\* before the call.
C18_BarePrintLastOnceUnprepared ==
    /\ \A i \in 1..Len(trace) :
          /\ BareOnlyAfterAllFailed(trace[i])
          /\ BarePrintCalls(trace[i]) <= 1
          /\ Finished(i) /\ Count(trace[i], "bare", "attempt") > 0
                => BarePrintCalls(trace[i]) = 1
    /\ BarePrintUnprepared

-----------------------------------------------------------------------------
(* Section keys *)

\* no two sections of the document have the same key
UniqueKeys(v) ==
    \A i, j \in 1..Len(Sections(v)) :
        i # j => Get(Sections(v)[i], "key") # Get(Sections(v)[j], "key")

\* C19: section keys are unique: after any sequence of form operations (add
\* section, remove section, edit key, import) no two sections of the document
\* of the form, or of the document App holds, share the same key.
C19_SectionKeysUnique == UniqueKeys(formValues) /\ UniqueKeys(data)

-----------------------------------------------------------------------------
(* Overlapping export attempts *)

\* the export button is pressed
Pressed == events' = events + 1

\* an earlier attempt has timers that have not yet run
SomePending == \E i \in 1..clicks : Pending(i)

\* onClick runs and a new attempt begins
StartsAttempt ==
    /\ clicks' = clicks + 1
    /\ Len(trace') = clicks'
    /\ trace'[clicks'] # <<>>

Disabled == pdfButton = "part_003" /\ isProcessing

-----------------------------------------------------------------------------
(* Layout bounds *)

WidthWithin(v, k, lo, hi) ==
    LET w == Get(Get(v, "layout"), k) IN
    IsNum(w) /\ w.num >= lo /\ w.num <= hi

\* C21: the layout bounds hold in every committed document: after any
\* sequence of layout edits through the form, the document App holds has
\* 20 <= leftWidth <= 50 and 50 <= rightWidth <= 80.
C21_LayoutBoundsHold ==
    /\ WidthWithin(data, "leftWidth", LeftWidthMin, LeftWidthMax)
    /\ WidthWithin(data, "rightWidth", RightWidthMin, RightWidthMax)

-----------------------------------------------------------------------------
(* The export pipeline and the edit loop *)

\* C22: the export pipeline does not take part in the edit loop: no step of
\* any export attempt changes the document App holds, the values of the form
\* or the item under the storage key.
C22_ExportLeavesDocumentAndStorage ==
    [][/\ data' = data
       /\ formValues' = formValues
       /\ storage' = storage
       /\ blob' = blob
       /\ saveCalls' = saveCalls
       /\ setDataCalls' = setDataCalls]_vars

\* an attempt has run through to a print call and all its timers have fired
C22_Witness ==
    /\ clicks >= 1
    /\ Finished(1)
    /\ \E k \in 1..Len(trace[1]) : trace[1][k].ev = "print"
    /\ data = initialData
    /\ storage = NoItem

-----------------------------------------------------------------------------
(* The preview and the document *)

\* C23: rendering the preview has no side effect on the document: after a
\* render the sections array has the same elements in the same order as
\* before, and meta and layout are unchanged.
C23_RenderLeavesDocument ==
    [][op'.kind = "render" =>
          /\ Sections(data') = Sections(data)
          /\ Get(data', "meta") = Get(data, "meta")
          /\ Get(data', "layout") = Get(data, "layout")
          /\ data' = data]_vars

\* a render whose sort had to move a section
C23_Witness ==
    /\ op.kind = "render"
    /\ rendered # Undefined
    /\ Column(data, "left") # ColumnUnsorted(data, "left")

-----------------------------------------------------------------------------
(* Order of the steps of the hidden-iframe stage *)

IframePrints(tr) == Count(tr, "iframe", "print") + Count(tr, "iframe", "printThrew")

\* in every prefix of the events of an attempt: no more loads than documents
\* written, no more print calls than loads, no more removals than print calls
IframeStepsInOrder(tr) ==
    \A k \in 1..Len(tr) :
        LET pre == SubSeq(tr, 1, k) IN
        /\ Count(pre, "iframe", "load") <= Count(pre, "iframe", "ok")
        /\ IframePrints(pre) <= Count(pre, "iframe", "load")
        /\ Count(pre, "iframe", "removed") <= IframePrints(pre)

\* C24: in the hidden-iframe stage the document is written and closed, then
\* the iframe's load event fires, then after the settle delay print is
\* invoked inside the iframe, and only after that is the iframe removed.
C24_IframeStepsInOrder ==
    \A i \in 1..Len(trace) : IframeStepsInOrder(trace[i])

-----------------------------------------------------------------------------
(* load and stored values that are not documents *)

StoredParses == storage # NoItem /\ JSONParse(storage.text).ok

\* C25: load performs no validation: whenever the stored text parses as
\* JSON, load(fallback) returns the parsed value as it is, also when it does
\* not conform to the schema of a document, and does not return the fallback.
C25_LoadReturnsParsedAsIs ==
    (op.kind = "load" /\ StoredParses) =>
        /\ loadResult = JSONParse(storage.text).val
        /\ loadResult # loadArg

\* load has returned a stored value that is not a document
C25_Witness ==
    /\ op.kind = "load" /\ StoredParses
    /\ ~schema(loadResult)
    /\ ~IsNum(Get(Get(loadResult, "layout"), "leftWidth"))
    /\ schema(loadArg)

-----------------------------------------------------------------------------
(* The two restores of the same-page stage *)

\* C26: in the same-page stage the restore of body content, body class and
\* title runs at most once per attempt: once the afterprint handler has
\* restored the page, the 10-second timeout does not write the snapshot again.
C26_RestoreAtMostOnce ==
    \A i \in 1..Len(trace) : Count(trace[i], "samePage", "restored") <= 1

-----------------------------------------------------------------------------
(* The disabled button *)

\* C27: the export button is never left disabled for good: on every path
\* through the stages, also when the iframe's load event does not fire, once
\* all timers have run isProcessing becomes false again.
C27_ButtonEnabledAgain == isProcessing ~> ~isProcessing

-----------------------------------------------------------------------------
(* The didErrorRef guard of the react-to-print variant *)

\* how often react-to-print has called onPrintError for the print job of
\* click i
Callbacks(i) == Count(trace[i], "reactToPrint", "failed")

\* how often the fallback chain has run from those calls: every run begins
\* with openWindowPrint, and onClick itself calls openWindowPrint once
ChainRuns(i) == Count(trace[i], "window", "attempt") - 1

RECURSIVE ChainRunsUpTo(_)

ChainRunsUpTo(n) == IF n = 0 THEN 0 ELSE ChainRunsUpTo(n - 1) + ChainRuns(n)

\* the guard is armed: no chain has run since the last click
Armed == clicks > 0 /\ ~didErrorRef

-----------------------------------------------------------------------------
(* document.title after an export *)

\* the title useDocumentTitle has set for the document App holds
TitleOfDocument == PageAtRest.title

\* C29: once an export attempt has finished and all its timers have fired,
\* document.title is the title derived from the current document: the
\* export's restore of the title never leaves a stale title in place.
C29_TitleCurrentAfterExport ==
    (clicks > 0 /\ timers = {}) => dom.title = TitleOfDocument

-----------------------------------------------------------------------------
(* The form's values and the document App holds *)

\* C30: the form's copy and the authoritative copy never diverge: after any
\* form operation (field edit, append or remove in a field array, raw-JSON
\* import) has been processed, the document App holds equals the values of
\* the form.
C30_FormAndAppAgree == data = formValues

\* an edit that the schema rejects has been processed and App holds it
C30_Witness ==
    /\ op.kind \in FormKinds
    /\ formValues # initialData
    /\ ~schema(formValues)
    /\ data = formValues

====
